---------------------------- MODULE Spec2Model ----------------------------
(***************************************************************************)
(* Model of acc/components/optics/guide.py: the reflectivity function      *)
(* calc_reflectivity, the device function propagate, the kernel            *)
(* process_kernel and the host function call_process.                      *)
(*                                                                         *)
(* Numbers.  The code computes in IEEE-754 doubles.  The model computes in *)
(* exact rationals extended with the IEEE special values, so that a        *)
(* division by zero and what follows from it is computed as the device     *)
(* computes it (numba compiles CUDA code with the numpy error model: no    *)
(* exception, the quotient is an infinity or a NaN).  A value is a pair    *)
(* <<n, d>>:                                                               *)
(*    d > 0, n # 0   the rational n/d, in lowest terms                     *)
(*    <<0, 1>>       +0.0          <<0, -1>>     -0.0                      *)
(*    <<1, 0>>       +inf          <<-1, 0>>     -inf                      *)
(*    <<0, 0>>       NaN                                                   *)
(* Rounding, overflow and underflow of doubles are not modelled.           *)
(***************************************************************************)
EXTENDS Integers, Sequences, FiniteSets, TLC

\* ------------------------------------------------------------ arithmetic

NaN == <<0, 0>>

PInf == <<1, 0>>

NInf == <<-1, 0>>

PZero == <<0, 1>>

AbsI(n) == IF n < 0 THEN -n ELSE n

RECURSIVE GCD(_, _)
GCD(a, b) == IF b = 0 THEN a ELSE GCD(b, a % b)

IsNaN(v) == v = NaN

IsInf(v) == v[2] = 0 /\ v[1] # 0

IsZero(v) == v[1] = 0 /\ v[2] # 0

IsFinite(v) == v[2] # 0

\* The sign bit of a value that is not a NaN: 1 or -1.
Sgn(v) == IF v[1] > 0 THEN 1
          ELSE IF v[1] < 0 THEN -1
          ELSE IF v[2] < 0 THEN -1 ELSE 1

\* Magnitude as numerator and denominator, both >= 0.
MagN(v) == AbsI(v[1])

MagD(v) == AbsI(v[2])

\* The value of sign s and magnitude p/q (p, q >= 0).
Mk(s, p, q) ==
  IF q = 0 THEN (IF p = 0 THEN NaN ELSE <<s, 0>>)
  ELSE IF p = 0 THEN <<0, s>>
  ELSE IF q = 1 THEN <<s * p, 1>>
  ELSE LET g == GCD(p, q) IN <<s * (p \div g), q \div g>>

\* An integer literal of the source as a double.
F(n) == Mk(IF n < 0 THEN -1 ELSE 1, AbsI(n), 1)

\* A rational literal n/d (d > 0).
Rat(n, d) == Mk(IF n < 0 THEN -1 ELSE 1, AbsI(n), d)

Neg(a) == IF IsNaN(a) THEN NaN ELSE Mk(-Sgn(a), MagN(a), MagD(a))

\* The product; finite non-zero factors are cancelled crosswise first, which
\* keeps the intermediate integers small.
Mul(a, b) ==
  IF IsNaN(a) \/ IsNaN(b) THEN NaN
  ELSE IF \/ MagN(a) = 0 \/ MagD(a) = 0 \/ MagN(b) = 0 \/ MagD(b) = 0
          \/ (MagD(a) = 1 /\ MagD(b) = 1)
  THEN Mk(Sgn(a) * Sgn(b), MagN(a) * MagN(b), MagD(a) * MagD(b))
  ELSE LET g1 == GCD(MagN(a), MagD(b))
           g2 == GCD(MagN(b), MagD(a))
       IN  Mk(Sgn(a) * Sgn(b),
              (MagN(a) \div g1) * (MagN(b) \div g2),
              (MagD(a) \div g2) * (MagD(b) \div g1))

Recip(a) == IF IsNaN(a) THEN NaN ELSE Mk(Sgn(a), MagD(a), MagN(a))

Div(a, b) == Mul(a, Recip(b))

Add(a, b) ==
  IF IsNaN(a) \/ IsNaN(b) THEN NaN
  ELSE IF IsInf(a) /\ IsInf(b) THEN (IF a = b THEN a ELSE NaN)
  ELSE IF IsInf(a) THEN a
  ELSE IF IsInf(b) THEN b
  ELSE IF MagD(a) = 1 /\ MagD(b) = 1 /\ a[1] + b[1] # 0
  THEN <<a[1] + b[1], 1>>
  ELSE LET g == GCD(MagD(a), MagD(b))
           n == a[1] * (MagD(b) \div g) + b[1] * (MagD(a) \div g)
           d == (MagD(a) \div g) * MagD(b)
       IN  IF n = 0
           THEN (IF IsZero(a) /\ IsZero(b) /\ Sgn(a) = -1 /\ Sgn(b) = -1
                 THEN <<0, -1>> ELSE PZero)
           ELSE Mk(IF n < 0 THEN -1 ELSE 1, AbsI(n), d)

Sub(a, b) == Add(a, Neg(b))

\* a < b as the doubles compare: false when either is a NaN, -0.0 = +0.0.
Lt(a, b) ==
  IF IsNaN(a) \/ IsNaN(b) THEN FALSE
  ELSE IF a = b THEN FALSE
  ELSE IF IsInf(a) THEN a = NInf
  ELSE IF IsInf(b) THEN b = PInf
  ELSE LET g == GCD(MagD(a), MagD(b))
       IN  a[1] * (MagD(b) \div g) < b[1] * (MagD(a) \div g)

Le(a, b) == IF IsNaN(a) \/ IsNaN(b) THEN FALSE ELSE ~Lt(b, a)

Gt(a, b) == Lt(b, a)

Ge(a, b) == Le(b, a)

\* a == b as the doubles compare.
Eq(a, b) == Le(a, b) /\ Le(b, a)

\* floor(sqrt(k)) of a natural number.
RECURSIVE ISqrtFrom(_, _)
ISqrtFrom(k, r) ==
  LET n == (r + (k \div r)) \div 2
  IN  IF n >= r THEN r ELSE ISqrtFrom(k, n)

ISqrt(k) == IF k = 0 THEN 0 ELSE ISqrtFrom(k, k)

\* math.sqrt: exact when the argument is the square of a rational (every
\* geometry of Geometries is), rounded down to a multiple of 1/d otherwise.
Sqrt(v) ==
  IF IsNaN(v) THEN NaN
  ELSE IF IsZero(v) THEN v
  ELSE IF Sgn(v) = -1 THEN NaN
  ELSE IF IsInf(v) THEN PInf
  ELSE Mk(1, ISqrt(v[1] * v[2]), v[2])

\* math.tanh, as the odd, increasing, saturating function
\*    x / 2  for |x| < 2,   +-1 beyond.
\* A double tanh saturates to exactly +-1.0 as well, from |x| of about 19.1.
Tanh(v) ==
  IF IsNaN(v) THEN NaN
  ELSE IF Ge(v, F(2)) THEN F(1)
  ELSE IF Le(v, F(-2)) THEN F(-1)
  ELSE Div(v, F(2))

\* ----------------------------------------------------------- reflectivity

\* mcni.utils.conversion.V2K, the wavevector of a neutron of unit velocity.
\* The model measures velocities in the unit in which it is 1/2.
V2K == Rat(1, 2)

\* Lines 24-25 without the halving: what C1 is to tell from the source.
calc_reflectivity_not_halved(Qv, R0, Qc, alpha, m, W) ==
  IF Gt(Qv, Qc)
  THEN Mul(R0, Mul(Sub(F(1), Tanh(Div(Sub(Qv, Mul(m, Qc)), W))),
                   Sub(F(1), Mul(alpha, Sub(Qv, Qc)))))
  ELSE R0

\* Line 24 with Q >= Qc for Q > Qc: what C11 is to tell from the source.
calc_reflectivity_edge_included(Qv, R0, Qc, alpha, m, W) ==
  IF Ge(Qv, Qc)
  THEN Mul(R0, Div(Mul(Sub(F(1), Tanh(Div(Sub(Qv, Mul(m, Qc)), W))),
                       Sub(F(1), Mul(alpha, Sub(Qv, Qc)))),
                   F(2)))
  ELSE R0

\* R = R0; if Q > Qc: R *= (1 - tanh((Q - m*Qc)/W)) * (1 - alpha*(Q - Qc)) / 2
calc_reflectivity(Qv, R0, Qc, alpha, m, W) ==
  IF Gt(Qv, Qc)
  THEN Mul(R0, Div(Mul(Sub(F(1), Tanh(Div(Sub(Qv, Mul(m, Qc)), W))),
                       Sub(F(1), Mul(alpha, Sub(Qv, Qc)))),
                   F(2)))
  ELSE R0

\* -------------------------------------------------------------- propagate

\* The bound of the bounce loop (100000 in the source, scaled down).
max_bounces == 3

\* The threads of a block (512 in the source, scaled down).
threads_per_block == 2

\* The largest batch of SpecBatch.
MaxN == 3

\* Guide.__init__: the ten parameters passed to every kernel launch.
GuideParams(w1, h1, w2, h2, l, R0, Qc, alpha, m, W) ==
  [ww |-> Mul(Rat(1, 2), Sub(w2, w1)), hh |-> Mul(Rat(1, 2), Sub(h2, h1)),
   hw1 |-> Mul(Rat(1, 2), w1), hh1 |-> Mul(Rat(1, 2), h1), l |-> l,
   R0 |-> R0, Qc |-> Qc, alpha |-> alpha, m |-> m, W |-> W]

\* The value of `side` before its first assignment.
Unassigned == -1

\* The locals of propagate before it has run.  nb is the loop variable of
\* the next iteration: the number of iterations that came to their end, each
\* with a reflection.  Five fields are not in the source and only record
\* what it did: pprob is prob before line 100 last multiplied it, dz that a
\* division by a zero denominator has been evaluated, ur that line 72 has
\* read `side` before any assignment to it, iters the number of iterations
\* begun, out how the function was left.
NoLocals ==
  [x |-> PZero, y |-> PZero, z |-> PZero, vx |-> PZero, vy |-> PZero,
   vz |-> PZero, t |-> PZero, prob |-> PZero, nb |-> 0, side |-> Unassigned,
   best_time |-> PInf, q |-> PZero, vdot |-> PZero, R |-> PZero,
   pprob |-> PZero, dz |-> FALSE, ur |-> FALSE, iters |-> 0, out |-> "none"]

\* Lines 38-43: read the record and fly it to z = 0.
EntryProjection(rec) ==
  LET dt == Div(Neg(rec.z), rec.vz)
  IN  [NoLocals EXCEPT
         !.x = Add(rec.x, Mul(rec.vx, dt)),
         !.y = Add(rec.y, Mul(rec.vy, dt)),
         !.z = PZero,
         !.vx = rec.vx, !.vy = rec.vy, !.vz = rec.vz,
         !.t = Add(rec.t, dt),
         !.prob = rec.prob, !.pprob = rec.prob,
         !.dz = IsZero(rec.vz)]

\* Line 45 with the edges of the opening let in: what C4 is to tell from
\* the source.
OutsideOpeningEdgeLetIn(p, x, y) ==
  \/ Lt(x, Neg(p.hw1)) \/ Gt(x, p.hw1)
  \/ Lt(y, Neg(p.hh1)) \/ Gt(y, p.hh1)

\* Line 45: the particle misses the opening of the guide.
OutsideOpening(p, x, y) ==
  \/ Le(x, Neg(p.hw1)) \/ Ge(x, p.hw1)
  \/ Le(y, Neg(p.hh1)) \/ Ge(y, p.hh1)

\* Lines 50-55 and 61: the directional terms, exit plane first.
Vdots(p, c) ==
  LET av == Mul(p.l, c.vx)  bv == Mul(p.ww, c.vz)
      ah == Mul(p.l, c.vy)  bh == Mul(p.hh, c.vz)
  IN  <<F(-1), Add(bv, av), Sub(bv, av), Add(bh, ah), Sub(bh, ah)>>

\* Lines 57-66: the intersection times, exit plane first.
Times(p, c) ==
  LET vd  == Vdots(p, c)
      cv1 == Sub(Mul(Neg(p.hw1), p.l), Mul(c.z, p.ww))
      cv2 == Mul(c.x, p.l)
      ch1 == Sub(Mul(Neg(p.hh1), p.l), Mul(c.z, p.hh))
      ch2 == Mul(c.y, p.l)
  IN  <<Div(Sub(p.l, c.z), c.vz),
        Div(Sub(cv1, cv2), vd[2]),
        Div(Add(cv1, cv2), vd[3]),
        Div(Sub(ch1, ch2), vd[4]),
        Div(Add(ch1, ch2), vd[5])>>

\* Lines 60-66 divide by vz and by the four directional terms.
ZeroDenominator(p, c) ==
  \/ IsZero(c.vz)
  \/ \E i \in 2..5 : IsZero(Vdots(p, c)[i])

\* Line 69 with the sign of the directional term turned: what C12 is to
\* tell from the source.
BetterMovingAway(vdots, times, i, best) ==
  Gt(vdots[i + 1], F(0)) /\ Gt(best, times[i + 1])

\* Line 69: candidate i replaces the best one found so far.
Better(vdots, times, i, best) == Lt(vdots[i + 1], F(0)) /\ Gt(best, times[i + 1])

\* Lines 67-71: the loop over the five surfaces, from surface i on.
RECURSIVE SelectSide(_, _, _, _, _)
SelectSide(vdots, times, i, best, side) ==
  IF i > 4 THEN <<best, side>>
  ELSE IF Better(vdots, times, i, best)
       THEN SelectSide(vdots, times, i + 1, times[i + 1], i)
       ELSE SelectSide(vdots, times, i + 1, best, side)

\* Line 72 reads `side`; a `side` that was never assigned reads as u.
ReadSide(side, u) ==
  IF side = Unassigned THEN (IF u = Unassigned THEN 0 ELSE u) ELSE side

\* Lines 81-98 with vz left as it was: the reflection off a mirror that is
\* parallel to the axis.
ReflectUntapered(p, c, side) ==
  LET vd == Vdots(p, c)
  IN  IF side < 3
      THEN LET vdot  == vd[side + 1]
               nlen2 == Add(Mul(p.l, p.l), Mul(p.ww, p.ww))
               d     == Div(Mul(F(2), vdot), nlen2)
               vxd   == IF side = 1 THEN Mul(d, p.l) ELSE Mul(Neg(d), p.l)
           IN  [c EXCEPT !.vdot = vdot,
                         !.q = Div(Mul(Mul(V2K, F(-2)), vdot), Sqrt(nlen2)),
                         !.vx = Sub(c.vx, vxd)]
      ELSE LET vdot  == vd[side + 1]
               nlen2 == Add(Mul(p.l, p.l), Mul(p.hh, p.hh))
               d     == Div(Mul(F(2), vdot), nlen2)
               vyd   == IF side = 3 THEN Mul(d, p.l) ELSE Mul(Neg(d), p.l)
           IN  [c EXCEPT !.vdot = vdot,
                         !.q = Div(Mul(Mul(V2K, F(-2)), vdot), Sqrt(nlen2)),
                         !.vy = Sub(c.vy, vyd)]

\* Lines 81-98: the reflection off mirror `side` (1..4).
Reflect(p, c, side) ==
  LET vd == Vdots(p, c)
  IN  IF side < 3
      THEN LET vdot  == vd[side + 1]
               nlen2 == Add(Mul(p.l, p.l), Mul(p.ww, p.ww))
               d     == Div(Mul(F(2), vdot), nlen2)
               vxd   == IF side = 1 THEN Mul(d, p.l) ELSE Mul(Neg(d), p.l)
           IN  [c EXCEPT !.vdot = vdot,
                         !.q = Div(Mul(Mul(V2K, F(-2)), vdot), Sqrt(nlen2)),
                         !.vx = Sub(c.vx, vxd),
                         !.vz = Sub(c.vz, Mul(d, p.ww))]
      ELSE LET vdot  == vd[side + 1]
               nlen2 == Add(Mul(p.l, p.l), Mul(p.hh, p.hh))
               d     == Div(Mul(F(2), vdot), nlen2)
               vyd   == IF side = 3 THEN Mul(d, p.l) ELSE Mul(Neg(d), p.l)
           IN  [c EXCEPT !.vdot = vdot,
                         !.q = Div(Mul(Mul(V2K, F(-2)), vdot), Sqrt(nlen2)),
                         !.vy = Sub(c.vy, vyd),
                         !.vz = Sub(c.vz, Mul(d, p.hh))]

\* Line 78: fly for the time t1.
Advance(c, t1) ==
  [c EXCEPT !.x = Add(c.x, Mul(c.vx, t1)),
            !.y = Add(c.y, Mul(c.vy, t1)),
            !.z = Add(c.z, Mul(c.vz, t1)),
            !.t = Add(c.t, t1)]

\* Line 72: the exit plane was selected and the loop is left.
LeavesGuide(side) == side = 0

\* Line 101 with prob < 0 for prob <= 0: what C16 is to tell from the
\* source.
AbsorbedBelowZero(prob) == Lt(prob, F(0))

\* Line 101: the particle is absorbed and the loop is left.
Absorbed(prob) == Le(prob, F(0))

\* The value of Op at v, with v computed once.
Then(v, Op(_)) == CHOOSE r \in {Op(x) : x \in {v}} : TRUE

\* Lines 50-71: the locals after the five surfaces have been examined.
Selected(p, c) ==
  LET sel == SelectSide(Vdots(p, c), Times(p, c), 0, PInf, c.side)
  IN  [c EXCEPT !.best_time = sel[1], !.side = sel[2],
                !.iters = c.iters + 1,
                !.ur = c.ur \/ sel[2] = Unassigned,
                !.dz = c.dz \/ ZeroDenominator(p, c)]

\* Lines 99-102: the reflectivity weights the particle.
Weighted(p, c) ==
  LET R    == calc_reflectivity(c.q, p.R0, p.Qc, p.alpha, p.m, p.W)
      prob == Mul(c.prob, R)
  IN  [c EXCEPT !.R = R, !.prob = prob, !.pprob = c.prob,
                !.nb = c.nb + 1,
                !.out = IF Absorbed(prob) THEN "Absorbed" ELSE "none"]

\* Lines 72-102: the iteration after the selection, `side` read as `side`.
Bounced(p, c, side) ==
  IF LeavesGuide(side)
  THEN [c EXCEPT !.out = "Exited"]
  ELSE Then(Then(Advance(c, c.best_time), LAMBDA a : Reflect(p, a, side)),
            LAMBDA r : Weighted(p, r))

\* Lines 50-102: one iteration of the bounce loop on the locals c.
BounceIteration(p, c, u) ==
  Then(Selected(p, c), LAMBDA s : Bounced(p, s, ReadSide(s.side, u)))

\* Lines 49-102: the bounce loop, from the locals c to the locals it ends
\* with.
RECURSIVE BounceLoop(_, _, _)
BounceLoop(p, c, u) ==
  IF c.nb >= max_bounces THEN [c EXCEPT !.out = "Capped"]
  ELSE Then(BounceIteration(p, c, u),
            LAMBDA c1 : IF c1.out = "none" THEN BounceLoop(p, c1, u) ELSE c1)

\* Lines 38-105: propagate run by itself on the record rec, as the record
\* it leaves.
propagate(p, rec, u) ==
  LET c == EntryProjection(rec)
  IN  IF OutsideOpening(p, c.x, c.y)
      THEN [rec EXCEPT !.prob = PZero]
      ELSE Then(BounceLoop(p, c, u),
                LAMBDA e : [rec EXCEPT !.x = e.x, !.y = e.y, !.z = e.z,
                                       !.vx = e.vx, !.vy = e.vy, !.vz = e.vz,
                                       !.t = e.t, !.prob = e.prob])

\* ------------------------------------------------------------ the batch

VARIABLES
  params,     \* the ten parameters of Guide._params
  neutrons,   \* the array of records, index 0..N-1
  in0,        \* the array as call_process received it
  hpc,        \* where the host is in call_process
  pc,         \* where each kernel thread is
  loc,        \* the locals of propagate, per kernel thread
  undef,      \* what a read of the unassigned `side` yields in this build
  touched     \* <<thread, index>>: the thread has read or written the record

vars == <<params, neutrons, in0, hpc, pc, loc, undef, touched>>

\* Line 129.
neutron_count == Cardinality(DOMAIN neutrons)

\* math.ceil(n / t) for a count n >= 0 and t > 0.
Ceil(n, t) == IF n % t = 0 THEN n \div t ELSE (n \div t) + 1

\* Line 131.
number_of_blocks == Ceil(neutron_count, threads_per_block)

\* The threads of a launch of nblocks blocks: <<blockIdx.x, threadIdx.x>>.
ThreadIds(nblocks) == (0..(nblocks - 1)) \X (0..(threads_per_block - 1))

\* cuda.grid(1) without the offset of the block: what C7 is to tell from
\* the source.
GridWithinBlock(th) == th[2]

\* cuda.grid(1) of a thread.
Grid(th) == th[1] * threads_per_block + th[2]

\* Line 115.
InRange(x, n) == x < n

\* Lines 103-105 left out: what C5 is to tell from the source.
StoredNothing(rec, c) == rec

\* What propagate writes on lines 103-105.
Stored(rec, c) ==
  [rec EXCEPT !.x = c.x, !.y = c.y, !.z = c.z,
              !.vx = c.vx, !.vy = c.vy, !.vz = c.vz,
              !.t = c.t, !.prob = c.prob]

\* call_process, lines 129-137: the kernel is launched.
Launch ==
  /\ hpc = "call"
  /\ hpc' = "sync"
  /\ pc' = [th \in ThreadIds(number_of_blocks) |-> "kernel"]
  /\ loc' = [th \in ThreadIds(number_of_blocks) |-> NoLocals]
  /\ UNCHANGED <<params, neutrons, in0, undef, touched>>

\* call_process, line 133, for an empty batch: the launch of a grid of no
\* block.  The CUDA driver rejects a grid dimension of 0 as an invalid
\* launch configuration and numba raises the error out of call_process;
\* numba's simulator starts no thread instead, which is Launch.
LaunchRejected ==
  /\ hpc = "call"
  /\ number_of_blocks = 0
  /\ hpc' = "raised"
  /\ UNCHANGED <<params, neutrons, in0, pc, loc, undef, touched>>

\* Line 138 left out, the host not waiting for the kernel: what C6 is to
\* tell from the source.
KernelNotAwaited == TRUE

\* Whether cuda.synchronize() may return: every thread of the launch is done.
KernelFinished == \A th \in DOMAIN pc : pc[th] = "done"

\* call_process, line 138: cuda.synchronize() returns.
Synchronize ==
  /\ hpc = "sync"
  /\ KernelFinished
  /\ hpc' = "returned"
  /\ UNCHANGED <<params, neutrons, in0, pc, loc, undef, touched>>

\* process_kernel, lines 114-121, for a thread beyond the array.
KernelSkip(th) ==
  /\ pc[th] = "kernel"
  /\ ~InRange(Grid(th), neutron_count)
  /\ pc' = [pc EXCEPT ![th] = "done"]
  /\ UNCHANGED <<params, neutrons, in0, hpc, loc, undef, touched>>

\* Line 46 with the flight to z = 0 of lines 42-43 stored as well.
RejectedAtOpening(rec) ==
  LET c == EntryProjection(rec)
  IN  [rec EXCEPT !.x = c.x, !.y = c.y, !.z = c.z, !.t = c.t, !.prob = PZero]

\* Line 46: the record of a particle that misses the opening.
Rejected(rec) == [rec EXCEPT !.prob = PZero]

\* process_kernel, lines 114-119, and propagate, lines 38-47.
Enter(th) ==
  /\ pc[th] = "kernel"
  /\ InRange(Grid(th), neutron_count)
  /\ LET i == Grid(th)
         c == EntryProjection(neutrons[i])
     IN  /\ touched' = touched \cup {<<th, i>>}
         /\ IF OutsideOpening(params, c.x, c.y)
            THEN /\ neutrons' = [neutrons EXCEPT ![i] = Rejected(neutrons[i])]
                 /\ loc' = [loc EXCEPT ![th] = [c EXCEPT !.out = "Escaped"]]
                 /\ pc' = [pc EXCEPT ![th] = "done"]
            ELSE /\ neutrons' = neutrons
                 /\ loc' = [loc EXCEPT ![th] = c]
                 /\ pc' = [pc EXCEPT ![th] = "loop"]
  /\ UNCHANGED <<params, in0, hpc, undef>>

\* Line 49 with one iteration more: what C9 is to tell from the source.
LoopContinuesOnceMore(nb) == nb <= max_bounces

\* Line 49: the loop runs another iteration.
LoopContinues(nb) == nb < max_bounces

\* What the read of `side` on line 72 may yield after the loop over the
\* surfaces left it at `side`: the value the build has for an unassigned
\* `side`, any of the five while no read has fixed it.
UndefReads(side) ==
  IF side = Unassigned /\ undef = Unassigned THEN 0..4 ELSE {undef}

\* propagate, lines 49-102: one iteration of the bounce loop.
Bounce(th) ==
  /\ pc[th] = "loop"
  /\ LoopContinues(loc[th].nb)
  /\ \E s \in {Selected(params, loc[th])} :
       \E u \in UndefReads(s.side) :
         \E c1 \in {Bounced(params, s, ReadSide(s.side, u))} :
           /\ undef' = u
           /\ loc' = [loc EXCEPT ![th] = c1]
           /\ pc' = [pc EXCEPT ![th] =
                       IF c1.out = "none" THEN "loop" ELSE "write"]
  /\ UNCHANGED <<params, neutrons, in0, hpc, touched>>

\* propagate, line 49: range(max_bounces) is exhausted.
LoopEnd(th) ==
  /\ pc[th] = "loop"
  /\ ~LoopContinues(loc[th].nb)
  /\ loc' = [loc EXCEPT ![th].out = "Capped"]
  /\ pc' = [pc EXCEPT ![th] = "write"]
  /\ UNCHANGED <<params, neutrons, in0, hpc, undef, touched>>

\* propagate, lines 103-105: the locals are written to the record.
WriteBack(th) ==
  /\ pc[th] = "write"
  /\ LET i == Grid(th)
     IN  /\ neutrons' = [neutrons EXCEPT ![i] = Stored(neutrons[i], loc[th])]
         /\ touched' = touched \cup {<<th, i>>}
  /\ pc' = [pc EXCEPT ![th] = "done"]
  /\ UNCHANGED <<params, in0, hpc, loc, undef>>

\* process_kernel, lines 114-119, and propagate, lines 38-102, as one step
\* of the thread: after the read of its record on lines 38-40 the thread
\* reads and writes nothing but its locals until line 103 (line 46 for a
\* particle that misses the opening).
EnterAndLoop(th) ==
  /\ pc[th] = "kernel"
  /\ InRange(Grid(th), neutron_count)
  /\ \E c \in {EntryProjection(neutrons[Grid(th)])} :
       /\ touched' = touched \cup {<<th, Grid(th)>>}
       /\ IF OutsideOpening(params, c.x, c.y)
          THEN /\ neutrons' = [neutrons EXCEPT
                              ![Grid(th)] = Rejected(neutrons[Grid(th)])]
               /\ loc' = [loc EXCEPT ![th] = [c EXCEPT !.out = "Escaped"]]
               /\ pc' = [pc EXCEPT ![th] = "done"]
               /\ undef' = undef
          ELSE /\ neutrons' = neutrons
               /\ pc' = [pc EXCEPT ![th] = "write"]
               /\ \E e0 \in {BounceLoop(params, c, undef)} :
                    IF e0.ur /\ undef = Unassigned
                    THEN \E u \in 0..4 :
                           /\ undef' = u
                           /\ loc' = [loc EXCEPT
                                        ![th] = BounceLoop(params, c, u)]
                    ELSE /\ undef' = undef
                         /\ loc' = [loc EXCEPT ![th] = e0]
  /\ UNCHANGED <<params, in0, hpc>>

Next ==
  \/ Launch
  \/ LaunchRejected
  \/ Synchronize
  \/ \E th \in DOMAIN pc : KernelSkip(th)
  \/ \E th \in DOMAIN pc : Enter(th)
  \/ \E th \in DOMAIN pc : Bounce(th)
  \/ \E th \in DOMAIN pc : LoopEnd(th)
  \/ \E th \in DOMAIN pc : WriteBack(th)

\* The same, a thread going from the read of its record to the end of the
\* bounce loop in one step.
NextBatch ==
  \/ Launch
  \/ LaunchRejected
  \/ Synchronize
  \/ \E th \in DOMAIN pc : KernelSkip(th)
  \/ \E th \in DOMAIN pc : EnterAndLoop(th)
  \/ \E th \in DOMAIN pc : WriteBack(th)

\* --------------------------------------------------------------- inputs

\* w1, h1, w2, h2, l: a straight guide, one that widens and one that
\* narrows in x, one that widens in y, a straight one of length 0.
Geometries ==
  { <<F(2), F(2), F(2), F(2), F(4)>>,
    <<F(2), F(2), F(8), F(2), F(4)>>,
    <<F(8), F(2), F(2), F(2), F(4)>>,
    <<F(2), F(2), F(2), F(8), F(4)>>,
    <<F(2), F(2), F(2), F(2), F(0)>> }

\* R0, Qc, alpha, m, W.
Mirrors ==
  { <<Rat(9, 10), F(1), Rat(1, 2), F(2), F(1)>>,
    <<Rat(9, 10), F(1), Rat(1, 2), F(0), F(1)>>,
    <<F(1), F(1), F(-2), F(2), F(1)>>,
    <<F(0), F(1), F(0), F(2), F(1)>>,
    <<F(1), F(1), F(0), F(2), F(1)>> }

ParamSet ==
  { GuideParams(g[1], g[2], g[3], g[4], g[5], m[1], m[2], m[3], m[4], m[5]) :
      g \in Geometries, m \in Mirrors }

Neutron(x, y, z, vx, vy, vz, t, prob) ==
  [x |-> x, y |-> y, z |-> z, vx |-> vx, vy |-> vy, vz |-> vz,
   spin |-> <<PZero, PZero>>, t |-> t, prob |-> prob]

\* The records of Spec.
Records ==
  { Neutron(x, F(0), z, vx, vy, vz, F(0), F(1)) :
      x \in {F(0), F(1), F(2)}, z \in {F(0), F(-4)},
      vx \in {F(-4), F(-1), F(0), F(1), F(2)}, vy \in {F(0), F(1)},
      vz \in {F(0), F(1), F(-1), Rat(1, 4)} }

\* The records of SpecBatch: one that misses the opening, one that is
\* reflected once and leaves, one that is absorbed at its first reflection.
BatchRecords ==
  { Neutron(F(2), F(0), F(0), F(0), F(0), F(1), F(0), F(1)),
    Neutron(F(0), F(0), F(0), F(1), F(0), F(8), F(0), F(1)),
    Neutron(F(0), F(0), F(0), F(4), F(0), F(1), F(0), F(1)) }

\* The guide of SpecBatch: straight, 16 long.
BatchParams ==
  { GuideParams(F(2), F(2), F(2), F(2), F(16),
                Rat(9, 10), F(1), Rat(1, 2), F(2), F(1)) }

InitWith(ps, recs, sizes) ==
  /\ params \in ps
  /\ \E n \in sizes : neutrons \in [0..(n - 1) -> recs]
  /\ in0 = neutrons
  /\ hpc = "call"
  /\ pc = [th \in {} |-> "kernel"]
  /\ loc = [th \in {} |-> NoLocals]
  /\ undef = Unassigned
  /\ touched = {}

\* Guide.__init__'s defaults of R0, Qc, alpha, m, W.
DefaultMirror == <<Rat(99, 100), Rat(219, 10000), Rat(607, 100), F(2), Rat(3, 1000)>>

\* The guide of the round trip: entrance 0.02 x 0.02, exit 0.03 x 0.03,
\* length 1, with each of the mirrors and with the default mirror.
RoundTripParams ==
  { GuideParams(Rat(1, 50), Rat(1, 50), Rat(3, 100), Rat(3, 100), F(1),
                m[1], m[2], m[3], m[4], m[5]) :
      m \in Mirrors \cup {DefaultMirror} }

\* The particle of the round trip: centred at the entrance, velocity
\* (0.001, 0, 1).
RoundTripRecords ==
  { Neutron(F(0), F(0), F(0), Rat(1, 1000), F(0), F(1), F(0), F(1)) }

\* call_process on no record and on one record, over every guide and
\* record of the sets, and on the particle of the round trip in its guide.
Init ==
  \/ InitWith(ParamSet, Records, {0, 1})
  \/ InitWith(RoundTripParams, RoundTripRecords, {1})

Spec == Init /\ [][Next]_vars

\* call_process on a batch of 0..MaxN records, over every order of them.
InitBatch == InitWith(BatchParams, BatchRecords, 0..MaxN)

SpecBatch == InitBatch /\ [][NextBatch]_vars

\* --------------------------------------------------------------- claims

\* The threads that were given a record, and the record of each.
Workers == { th \in DOMAIN pc : InRange(Grid(th), neutron_count) }

\* The thread has left propagate.
Left(th) == pc[th] = "done"

\* C1 as stated: for every alpha, the probability propagate stores is at
\* most the probability it was given, and no bounce increases the running
\* probability.
C1_ProbabilityNeverIncreases ==
  \A th \in Workers :
    /\ pc[th] \in {"loop", "write", "done"}
         => Le(loc[th].prob, loc[th].pprob)
    /\ Left(th) => Le(neutrons[Grid(th)].prob, in0[Grid(th)].prob)

\* C1 amended: the same, for the mirrors whose slope alpha is >= 0.
C1_ProbabilityNeverIncreasesAlphaNonNegative ==
  Ge(params.alpha, F(0)) => C1_ProbabilityNeverIncreases

\* A particle that a mirror of slope alpha > 0 has reflected above the
\* critical edge, with a loss, has been stored.
C1_Witness ==
  \E th \in Workers :
    /\ Left(th) /\ loc[th].nb >= 1 /\ ~loc[th].ur
    /\ Gt(params.alpha, F(0)) /\ Gt(loc[th].q, params.Qc)
    /\ Lt(neutrons[Grid(th)].prob, in0[Grid(th)].prob)
    /\ Gt(neutrons[Grid(th)].prob, F(0))

\* The record of a worker as call_process received it.
Given(th) == in0[Grid(th)]

\* The record of a worker as it is now.
Kept(th) == neutrons[Grid(th)]

\* Guide.process, line 194: the record is among those handed on.
Good(rec) == Gt(rec.prob, F(0))

\* C2 as stated: a particle for which the bounce loop selected the exit
\* plane is stored at the exit, z == length, with x, y and time advanced
\* by the flight time to the exit from where the loop stood.
C2_ExitedRecordIsAtExit ==
  \A th \in Workers :
    (Left(th) /\ loc[th].out = "Exited" /\ loc[th].side = 0) =>
       LET c  == loc[th]
           t1 == Div(Sub(params.l, c.z), c.vz)
       IN  /\ Eq(Kept(th).z, params.l)
           /\ Eq(Kept(th).x, Add(c.x, Mul(c.vx, t1)))
           /\ Eq(Kept(th).y, Add(c.y, Mul(c.vy, t1)))
           /\ Eq(Kept(th).t, Add(c.t, t1))

\* C3 as stated: a particle that starts on the axis at the entrance and
\* flies along it through a straight guide ends after no bounce with x, y
\* and probability unchanged and time = length / vz.
C3_AxialFlight ==
  \A th \in Workers :
    ( /\ Left(th)
      /\ IsZero(params.ww) /\ IsZero(params.hh)
      /\ IsZero(Given(th).x) /\ IsZero(Given(th).y) /\ IsZero(Given(th).z)
      /\ IsZero(Given(th).t)
      /\ IsZero(Given(th).vx) /\ IsZero(Given(th).vy)
      /\ Gt(Given(th).vz, F(0)) )
    => /\ loc[th].nb = 0
       /\ Eq(Kept(th).x, Given(th).x) /\ Eq(Kept(th).y, Given(th).y)
       /\ Eq(Kept(th).prob, Given(th).prob)
       /\ Eq(Kept(th).t, Div(params.l, Given(th).vz))

\* The projection of a record onto z = 0 misses the open rectangle.
MissesOpening(rec) ==
  LET dt == Div(Neg(rec.z), rec.vz)
      x  == Add(rec.x, Mul(rec.vx, dt))
      y  == Add(rec.y, Mul(rec.vy, dt))
  IN  \/ Le(x, Neg(params.hw1)) \/ Ge(x, params.hw1)
      \/ Le(y, Neg(params.hh1)) \/ Ge(y, params.hh1)

\* C4: a particle whose projection onto z = 0 is on or beyond the edge of
\* the opening ends with probability exactly 0, without an iteration of
\* the bounce loop, and with nothing of its flight stored.
C4_MissedOpeningIsRejected ==
  \A th \in Workers :
    (pc[th] # "kernel" /\ MissesOpening(Given(th))) =>
       /\ Left(th)
       /\ loc[th].out = "Escaped"
       /\ loc[th].nb = 0
       /\ Kept(th).prob = PZero
       /\ IsZero(loc[th].z)
       /\ Kept(th) = [Given(th) EXCEPT !.prob = PZero]

\* A particle that arrives exactly on the edge x = halfEntranceWidth has
\* been rejected.
C4_Witness ==
  \E th \in Workers :
    /\ Left(th) /\ loc[th].out = "Escaped"
    /\ Eq(loc[th].x, params.hw1)
    /\ Kept(th).prob = PZero

\* C8 as stated: propagate never evaluates a division by a zero
\* denominator.
C8_NoDivisionByZero == \A th \in DOMAIN pc : ~loc[th].dz

\* C10 as stated: in a guide with m = 0 a particle that was reflected ends
\* with probability 0.
C10_MZeroAbsorbs ==
  \A th \in Workers :
    (Left(th) /\ IsZero(params.m) /\ loc[th].nb >= 1)
       => Eq(Kept(th).prob, F(0))

\* The steps a thread has left at most.
Rank(p, c) ==
  CASE p = "kernel" -> max_bounces + 3
    [] p = "loop"   -> (max_bounces - c.iters) + 2
    [] p = "write"  -> 1
    [] OTHER        -> 0

\* C9: the bounce loop begins at most max_bounces iterations and reflects at
\* most as often, and every step of a thread brings it nearer to its end:
\* propagate terminates.
C9_PropagateTerminates ==
  /\ [](\A th \in DOMAIN pc :
          /\ loc[th].iters <= max_bounces
          /\ loc[th].nb <= loc[th].iters
          /\ Rank(pc[th], loc[th]) >= 0)
  /\ [][\A th \in DOMAIN pc :
          (th \in DOMAIN pc' /\ <<pc[th], loc[th]>> # <<pc'[th], loc'[th]>>)
             => Rank(pc'[th], loc'[th]) < Rank(pc[th], loc[th])]_vars

\* A particle was written back after max_bounces reflections, the loop
\* having run out.
C9_Witness ==
  \E th \in Workers :
    /\ Left(th) /\ loc[th].out = "Capped" /\ ~loc[th].ur
    /\ loc[th].nb = max_bounces /\ loc[th].iters = max_bounces

\* call_process has returned.
Returned == hpc = "returned"

\* C5: whatever the batch, the order of its records and the schedule of the
\* threads, each record ends as propagate run by itself on that record
\* leaves it; so a record ends the same at any index of any batch.
C5_RecordDependsOnItsInputOnly ==
  Returned =>
    \A i \in DOMAIN neutrons : neutrons[i] = propagate(params, in0[i], undef)

\* A batch of three records that do not end alike, the first and the last
\* the same, has been transported.
C5_Witness ==
  /\ Returned
  /\ neutron_count = 3
  /\ in0[0] = in0[2] /\ in0[0] # in0[1]
  /\ neutrons[0] = neutrons[2]
  /\ neutrons[0] # in0[0] /\ neutrons[1] # in0[1] /\ neutrons[0] # neutrons[1]

\* The thread has brought propagate to one of its ends and the record
\* holds what it computed.
Settled(th) ==
  /\ Left(th)
  /\ \/ loc[th].out = "Escaped" /\ Kept(th).prob = PZero
     \/ /\ loc[th].out \in {"Exited", "Absorbed", "Capped"}
        /\ Kept(th) = Stored(Kept(th), loc[th])

\* C6: call_process returns only when every thread of the launch is done
\* and every record has been brought to its end and written back.
C6_ReturnsAfterAllRecords ==
  Returned =>
    /\ \A th \in DOMAIN pc : pc[th] = "done"
    /\ \A i \in DOMAIN neutrons : \E th \in DOMAIN pc : Grid(th) = i /\ Settled(th)

\* call_process has returned from a batch of three records, one of which
\* was reflected.
C6_Witness ==
  /\ Returned
  /\ neutron_count = 3
  /\ \E th \in Workers : loc[th].nb >= 1

\* The thread the launch gives record i to.
Owner(i) == <<i \div threads_per_block, i % threads_per_block>>

\* C7: the launch has ceil(N / threads_per_block) blocks of
\* threads_per_block threads, and every record index is the grid index of
\* exactly one thread; only that thread reads or writes the record, a
\* thread beyond the array reads and writes no record; a step that changes
\* record i is a step of its owner and changes no other record, and no
\* step changes the parameters of the guide.
C7_OneThreadPerRecord ==
  /\ [](/\ hpc # "call" =>
             LET blocks == {th[1] : th \in DOMAIN pc}
                 B      == Cardinality(blocks)
             IN  /\ B * threads_per_block >= neutron_count
                 /\ B > 0 => (B - 1) * threads_per_block < neutron_count
                 /\ DOMAIN pc = blocks \X (0..(threads_per_block - 1))
                 /\ \A i \in DOMAIN neutrons :
                      Cardinality({th \in DOMAIN pc : Grid(th) = i}) = 1
        /\ \A a \in touched :
             /\ a[2] \in DOMAIN neutrons
             /\ a[1] = Owner(a[2])
        /\ \A i \in DOMAIN neutrons :
             /\ neutrons[i] # in0[i] => <<Owner(i), i>> \in touched
             /\ Returned => <<Owner(i), i>> \in touched)
  /\ [][/\ params' = params
        /\ DOMAIN neutrons' = DOMAIN neutrons
        /\ \A i \in DOMAIN neutrons :
             neutrons'[i] # neutrons[i] =>
               /\ pc'[Owner(i)] # pc[Owner(i)]
               /\ \A j \in DOMAIN neutrons \ {i} : neutrons'[j] = neutrons[j]]_vars

\* A launch of two blocks for three records has returned: the last thread
\* of the second block is beyond the array.
C7_Witness ==
  /\ Returned
  /\ neutron_count = 3
  /\ \E th \in DOMAIN pc : ~InRange(Grid(th), neutron_count) /\ th[1] = 1
  /\ Cardinality(touched) = 3

\* The arguments Q, alpha, m and W that C11 calls calc_reflectivity with,
\* besides those the bounces of Spec pass to it.
ReflectivityQs == {NInf, F(-1), Neg(PZero), PZero, Rat(1, 2), F(1)}

ReflectivityAlphas == {F(-2), F(0), Rat(1, 2), F(6)}

ReflectivityMs == {F(0), F(2), F(3)}

ReflectivityWs == {Rat(1, 2), F(1), F(3)}

\* C11: with Q <= Qc calc_reflectivity returns exactly R0, whatever alpha,
\* m and W are, and a bounce with Q <= Qc multiplies the probability by
\* exactly R0.
C11_BelowCriticalEdgeIsR0 ==
  /\ hpc = "call" =>
       \A Qv \in ReflectivityQs, a \in ReflectivityAlphas,
          m \in ReflectivityMs, W \in ReflectivityWs :
         Le(Qv, params.Qc) =>
           calc_reflectivity(Qv, params.R0, params.Qc, a, m, W) = params.R0
  /\ \A th \in Workers :
       (loc[th].nb >= 1 /\ Le(loc[th].q, params.Qc)) =>
          /\ loc[th].R = params.R0
          /\ loc[th].prob = Mul(loc[th].pprob, params.R0)

\* A particle has been reflected with Q exactly Qc by a mirror with
\* 0 < R0 < 1, alpha > 0 and m > 0, and was weighted by R0.
C11_Witness ==
  \E th \in Workers :
    /\ loc[th].nb = 1 /\ ~loc[th].ur
    /\ Eq(loc[th].q, params.Qc)
    /\ Gt(params.R0, F(0)) /\ Lt(params.R0, F(1))
    /\ Gt(params.alpha, F(0)) /\ Gt(params.m, F(0))
    /\ loc[th].prob = params.R0

\* The thread transports the particle of the round trip through its guide.
RoundTrip(th) == params \in RoundTripParams /\ Given(th) \in RoundTripRecords

\* C12 as stated: the particle of the round trip exits at z == length
\* after at least one bounce, with a final probability strictly between 0
\* and its initial one.
C12_RoundTripBounces ==
  \A th \in Workers :
    (Left(th) /\ RoundTrip(th)) =>
       /\ loc[th].out = "Exited"
       /\ Eq(Kept(th).z, params.l)
       /\ loc[th].nb >= 1
       /\ Gt(Kept(th).prob, F(0)) /\ Lt(Kept(th).prob, Given(th).prob)

\* C12 amended: the bounce loop selects the exit plane for the particle of
\* the round trip in its first iteration, no mirror being a candidate; it
\* leaves after no bounce with its probability and velocity unchanged.
C12_RoundTripLeavesUnreflected ==
  \A th \in Workers :
    /\ (pc[th] \in {"write", "done"} /\ RoundTrip(th)) =>
          /\ loc[th].out = "Exited" /\ loc[th].side = 0
          /\ loc[th].nb = 0 /\ loc[th].iters = 1
          /\ loc[th].prob = Given(th).prob
          /\ ~loc[th].ur /\ ~loc[th].dz
    /\ (Left(th) /\ RoundTrip(th)) =>
          /\ Kept(th).prob = Given(th).prob
          /\ Kept(th).vx = Given(th).vx /\ Kept(th).vy = Given(th).vy
          /\ Kept(th).vz = Given(th).vz

\* The particle of the round trip has been written back from the guide
\* with the default mirror.
C12_Witness ==
  \E th \in Workers :
    /\ Left(th) /\ RoundTrip(th)
    /\ params.R0 = DefaultMirror[1] /\ params.W = DefaultMirror[5]
    /\ loc[th].out = "Exited"
    /\ Kept(th).prob = Given(th).prob

\* C13 as stated: call_process on an empty batch launches no block, runs
\* propagate for no record, modifies nothing and does not fail.
C13_EmptyBatchIsNoOp ==
  neutron_count = 0 =>
    /\ hpc # "raised"
    /\ DOMAIN pc = {} /\ touched = {}
    /\ neutrons = in0

\* The step is an iteration of the bounce loop of thread th.
Iterates(th) ==
  /\ th \in DOMAIN pc /\ th \in DOMAIN pc'
  /\ pc[th] = "loop"
  /\ loc'[th].iters = loc[th].iters + 1

\* What line 72 read as `side` in the iteration the step is.
SideRead(th) == ReadSide(loc'[th].side, undef')

\* Surface s is the earliest of the surfaces the particle with the locals
\* c moves towards, the first listed of those that are equally early.
EarliestCandidate(c, s) ==
  LET vd == Vdots(params, c)
      tm == Times(params, c)
  IN  /\ Lt(vd[s + 1], F(0))
      /\ \A j \in 0..4 :
           Lt(vd[j + 1], F(0)) =>
             /\ Le(tm[s + 1], tm[j + 1])
             /\ Eq(tm[j + 1], tm[s + 1]) => s <= j

\* C14 as stated: in every iteration of the bounce loop the surface
\* selected is, among the five surfaces with a negative directional term,
\* the one with the smallest intersection time, the first listed of those
\* with equal times; a surface with a directional term >= 0 is never
\* selected.
C14_SelectsEarliestCandidate ==
  [][\A th \in DOMAIN pc :
       Iterates(th) => EarliestCandidate(loc[th], SideRead(th))]_vars

\* C15 as stated: the intersection time selected in an iteration of the
\* bounce loop is never negative, and the elapsed time of the particle
\* does not decrease in the iteration.
C15_SelectedTimeIsNotNegative ==
  [][\A th \in DOMAIN pc :
       Iterates(th) =>
         /\ ~Lt(loc'[th].best_time, F(0))
         /\ ~Lt(loc'[th].t, loc[th].t)]_vars

\* C16: a thread stands at the head of the bounce loop after a reflection
\* only with a probability > 0; a reflection that leaves the probability
\* <= 0 ends the loop, nothing is selected or multiplied in after it, and
\* the record is written back with that probability.
C16_AbsorptionIsTerminal ==
  /\ [](\A th \in DOMAIN pc :
          /\ (pc[th] = "loop" /\ loc[th].nb >= 1) => Gt(loc[th].prob, F(0))
          /\ (Left(th) /\ loc[th].out = "Absorbed") =>
                /\ Le(Kept(th).prob, F(0))
                /\ Kept(th).prob = loc[th].prob)
  /\ [][\A th \in DOMAIN pc :
          /\ (Iterates(th) /\ loc'[th].nb = loc[th].nb + 1
                /\ Le(loc'[th].prob, F(0)))
               => pc'[th] = "write" /\ loc'[th].out = "Absorbed"
          /\ (th \in DOMAIN pc' /\ loc[th].out = "Absorbed")
               => loc'[th] = loc[th]]_vars

\* A particle that a mirror has absorbed at its first reflection, before
\* the loop ran out, has been written back.
C16_Witness ==
  \E th \in Workers :
    /\ Left(th) /\ loc[th].out = "Absorbed" /\ ~loc[th].ur
    /\ loc[th].nb = 1 /\ loc[th].iters < max_bounces
    /\ Gt(loc[th].pprob, F(0)) /\ Le(Kept(th).prob, F(0))

\* The step is an iteration of thread th that ends with a reflection.
Reflects(th) == Iterates(th) /\ loc'[th].nb = loc[th].nb + 1

Capped(th) == Left(th) /\ loc[th].out = "Capped"

ReflectsOff(th, k) ==
  /\ Reflects(th)
  /\ loc'[th].best_time # PInf
  /\ loc'[th].side = k

\* C19: a reflection off mirror k turns the directional term of mirror k
\* into minus what it was, which is > 0, and leaves vx^2 + vy^2 + vz^2 and
\* the velocity component of the other transverse axis as they were.
C19_ReflectionNegatesNormalComponent ==
  [][\A th \in DOMAIN pc : \A k \in 1..4 :
       ReflectsOff(th, k) =>
         LET c   == loc[th]
             d   == loc'[th]
             Sq(v) == Mul(v, v)
             Speed2(e) == Add(Add(Sq(e.vx), Sq(e.vy)), Sq(e.vz))
         IN  /\ Eq(Vdots(params, d)[k + 1], Neg(Vdots(params, c)[k + 1]))
             /\ Gt(Vdots(params, d)[k + 1], F(0))
             /\ Eq(Speed2(d), Speed2(c))
             /\ IF k < 3 THEN d.vy = c.vy ELSE d.vx = c.vx]_vars

\* A particle has been reflected off a tapered mirror that changed both
\* vx and vz, and flies on.
C19_Witness ==
  \E th \in Workers :
    /\ pc[th] = "loop" /\ loc[th].nb = 1 /\ ~loc[th].ur /\ ~loc[th].dz
    /\ loc[th].side \in {1, 2}
    /\ params.ww # F(0)
    /\ loc[th].vx # Given(th).vx
    /\ loc[th].vz # Given(th).vz
    /\ Eq(Vdots(params, loc[th])[loc[th].side + 1], Neg(loc[th].vdot))

\* Thread th left propagate through the return of line 47.
Escaped(th) == Left(th) /\ loc[th].out = "Escaped"

\* C20: of the record of a particle rejected at the opening, propagate
\* changes the probability and nothing else; position, velocity and time
\* are those of the input, not those of the flight to z = 0.
C20_RejectionWritesProbabilityOnly ==
  \A th \in Workers :
    Escaped(th) =>
      \A f \in DOMAIN Given(th) \ {"prob"} : Kept(th)[f] = Given(th)[f]

\* A particle that starts before the entrance and flies past the opening
\* has been rejected: its position and time at z = 0 are not those it
\* started with.
C20_Witness ==
  \E th \in Workers :
    /\ Escaped(th)
    /\ ~loc[th].dz
    /\ ~IsZero(Given(th).z)
    /\ loc[th].x # Given(th).x
    /\ loc[th].t # Given(th).t
    /\ Kept(th).prob # Given(th).prob

=============================================================================
